---- MODULE Spec2Model ----
(***************************************************************************)
(* Model of github_pr_stats.py: the SQLite cache of pull requests and      *)
(* reviews, the paginated remote fetch, and get_stats (date filter,        *)
(* freshness policy, aggregation), driven from the interactive main loop.  *)
(*                                                                         *)
(* Representation of Python values:                                        *)
(*   - None, and the empty string, are the empty tuple <<>>;               *)
(*   - an ISO-8601 UTC string "YYYY-MM-DDTHH:00:00Z" is the tuple <<d, h>> *)
(*     (day, hour), a date-only string "YYYY-MM-DD" is <<d>>; strings      *)
(*     compare lexicographically, component by component;                  *)
(*   - an aware datetime is the integer number of hours d * 24 + h; an     *)
(*     optional datetime is <<>> or <<t>>;                                 *)
(*   - JSON text (json.dumps) is the tuple of the object's values in key   *)
(*     order.                                                              *)
(***************************************************************************)
EXTENDS Integers, Sequences, FiniteSets, Bags, TLC

(***************************************************************************)
(* Bounds of the model.                                                    *)
(***************************************************************************)
\* longest list the remote returns for the pull-request collection
MaxPRs == 2
\* longest list the remote returns for one pull request's reviews
MaxReviews == 2

None == <<>>

\* pull-request numbers the remote knows
PRNumbers == {1, 2}
States == {"open", "closed"}
Logins == {"alice", "bob"}

\* created_at of each pull request: immutable, so a function of its number
CreatedAtOf(n) == <<n, 0>>

\* a pull request as the remote returns it (the modelled fields of the JSON)
RemotePR(n, s) ==
    [number |-> n, title |-> <<"PR", n>>, state |-> s,
     created_at |-> CreatedAtOf(n), updated_at |-> CreatedAtOf(n)]

PRDomain == {RemotePR(n, s) : n \in PRNumbers, s \in States}

\* a review as the remote returns it; submitted_at is None while pending
RemoteReview(login, at) == [user |-> [login |-> login], submitted_at |-> at]

\* the reviews the pipeline specification draws from
ReviewDomain == {RemoteReview("alice", <<1, 5>>), RemoteReview("bob", None)}

\* the reviews the aggregation specification draws from
AggReviewDomain ==
    {RemoteReview("alice", <<1, 5>>), RemoteReview("alice", <<1, 10>>),
     RemoteReview("bob", <<1, 10>>), RemoteReview("bob", None)}

\* the pull requests the date-filter specification draws from
FilterPRDomain ==
    {[RemotePR(n, s) EXCEPT !.created_at = c, !.updated_at = c] :
        n \in PRNumbers, s \in States, c \in {<<1, 0>>, <<1, 1>>, <<1, 2>>}}
\* its from_date and to_date arguments, and its clock readings
FilterDateArgs == {None, <<1>>, <<1, 1>>}
FilterNowValues == {25}

\* all sequences over S of length at most n
RECURSIVE SeqsUpTo(_, _)
SeqsUpTo(S, n) ==
    IF n = 0 THEN {<<>>}
    ELSE LET shorter == SeqsUpTo(S, n - 1)
         IN  shorter \cup {Append(s, x) : s \in {t \in shorter : Len(t) = n - 1}, x \in S}

\* no element occurs twice in the sequence s
NoRepeat(s) == \A a \in 1..Len(s), b \in 1..Len(s) : s[a] = s[b] => a = b

\* the from_date and to_date arguments of the pipeline specification: none, or a
\* date; <<2>> as from_date with <<1>> as to_date is a range with from after to
FromArgs == {None, <<2>>}
ToArgs == {None, <<1>>}
\* wall-clock readings of datetime.now(timezone.utc), in hours
NowValues == {60}

(***************************************************************************)
(* Conversions.                                                            *)
(***************************************************************************)
\* datetime.fromisoformat(s.replace("Z", "+00:00")), as hours since day 0
iso_to_dt(s) == IF Len(s) = 1 THEN s[1] * 24 ELSE s[1] * 24 + s[2]

\* json.dumps / json.loads of a pull request
json_dumps_pr(pr) == <<pr.number, pr.title, pr.state, pr.created_at, pr.updated_at>>
json_loads_pr(text) ==
    [number |-> text[1], title |-> text[2], state |-> text[3],
     created_at |-> text[4], updated_at |-> text[5]]

\* json.dumps / json.loads of a review
json_dumps_review(r) == <<r.user.login, r.submitted_at>>
json_loads_review(text) == [user |-> [login |-> text[1]], submitted_at |-> text[2]]

\* string comparison a < b of Python, on tuples of numbers
RECURSIVE StrLess(_, _)
StrLess(a, b) ==
    IF b = <<>> THEN FALSE
    ELSE IF a = <<>> THEN TRUE
    ELSE IF a[1] # b[1] THEN a[1] < b[1]
    ELSE StrLess(Tail(a), Tail(b))

(***************************************************************************)
(* The cache store.                                                        *)
(***************************************************************************)
VARIABLES
    pull_requests,   \* table pull_requests: a set of rows, committed
    reviews_tbl,     \* table reviews: its rows in id order, committed
    txn,             \* save_reviews_to_db's open transaction: None or <<rows>>
    saved,           \* history: per number, the last pull request save_pr_to_db took
    pc,              \* where the process is
    error,           \* the exception that ended the run, or "none"
    from_date,       \* get_stats: the argument from_date, None when omitted
    to_date,         \* get_stats: the argument to_date, None when omitted
    now,             \* the clock reading of line 210, None when not taken
    from_dt,         \* get_stats: from_dt, None or <<t>>
    to_dt,           \* get_stats: to_dt, None or <<t>>
    results,         \* fetch_all: results
    all_prs,         \* get_stats: all_prs
    fetched_prs,     \* history: the list fetch_all returned at line 222
    i,               \* position of the loops over all_prs (1-based)
    reviews,         \* get_stats: reviews of the pull request in hand
    j,               \* save_reviews_to_db: position of the insert loop
    pr_metrics,      \* get_stats: pr_metrics
    reviewer_metrics,\* get_stats: reviewer_metrics, login -> list of hours
    output,          \* what lines 321-339 printed: None or <<record>>
    requests,        \* history: the fetch_all calls of this run, in order
    consumed,        \* history: per processed entry, what the aggregator read
    written          \* history: the review sets this run committed, in order

vars == <<pull_requests, reviews_tbl, txn, saved, pc, error, from_date, to_date, now,
          from_dt, to_dt, results,
          all_prs, fetched_prs, i, reviews, j, pr_metrics, reviewer_metrics,
          output, requests, consumed, written>>

\* mutant: INSERT OR IGNORE, which keeps the row already there
InsertOrReplace_Ignore(table, pr) ==
    IF \E row \in table : row.pr_number = pr.number THEN table
    ELSE table \cup {[pr_number |-> pr.number, title |-> pr.title, state |-> pr.state,
                      created_at |-> pr.created_at, updated_at |-> pr.updated_at,
                      pr_data |-> json_dumps_pr(pr)]}

\* INSERT OR REPLACE INTO pull_requests: pr_number is the primary key
InsertOrReplace(table, pr) ==
    {row \in table : row.pr_number # pr.number}
        \cup {[pr_number |-> pr.number, title |-> pr.title, state |-> pr.state,
               created_at |-> pr.created_at, updated_at |-> pr.updated_at,
               pr_data |-> json_dumps_pr(pr)]}

\* SELECT pr_data FROM pull_requests WHERE pr_number = ?, fetchone, json.loads
get_pr_from_db(pr_number) ==
    LET rows == {row \in pull_requests : row.pr_number = pr_number}
    IN  IF rows = {} THEN None
        ELSE <<json_loads_pr((CHOOSE row \in rows : TRUE).pr_data)>>

\* mutant: the DELETE is missing
DeleteReviews_Missing(table, pr_number) == table

\* DELETE FROM reviews WHERE pr_number = ?
DeleteReviews(table, pr_number) ==
    SelectSeq(table, LAMBDA row : row.pr_number # pr_number)

\* mutant: a review without submitted_at is not stored
InsertReview_SkipsPending(table, pr_number, review) ==
    IF review.submitted_at = None THEN table
    ELSE Append(table, [pr_number |-> pr_number, review_data |-> json_dumps_review(review)])

\* mutant: the INSERT is lost
InsertReview_Lost(table, pr_number, review) == table

\* INSERT INTO reviews (pr_number, review_data, cached_at): AUTOINCREMENT gives
\* the new row the largest id, so it goes last
InsertReview(table, pr_number, review) ==
    Append(table, [pr_number |-> pr_number, review_data |-> json_dumps_review(review)])

\* SELECT review_data FROM reviews WHERE pr_number = ?, fetchall, json.loads
ReviewsIn(table, pr_number) ==
    LET rows == SelectSeq(table, LAMBDA row : row.pr_number = pr_number)
    IN  [k \in 1..Len(rows) |-> json_loads_review(rows[k].review_data)]

get_reviews_from_db(pr_number) == ReviewsIn(reviews_tbl, pr_number)

\* mutant: the foreign key is enforced with ON DELETE CASCADE
ReviewsAfterReplace_Cascade(table, pr_number) ==
    SelectSeq(table, LAMBDA row : row.pr_number # pr_number)

\* the reviews table after INSERT OR REPLACE has replaced the row pr_number of
\* pull_requests: the FOREIGN KEY of line 52 names no ON DELETE action, and no
\* connection sets PRAGMA foreign_keys, so the rows that refer to it stay
ReviewsAfterReplace(table, pr_number) == table


(***************************************************************************)
(* The aggregation of one pull request (get_stats, lines 273-315).         *)
(***************************************************************************)
\* the sort key of line 284: r.get("submitted_at") or ""
SortKey(r) == r.submitted_at

\* r put into an already sorted list, after the entries whose key is not larger
RECURSIVE InsertSorted(_, _)
InsertSorted(sorted, r) ==
    IF sorted = <<>> THEN <<r>>
    ELSE IF StrLess(SortKey(r), SortKey(sorted[1])) THEN <<r>> \o sorted
    ELSE <<sorted[1]>> \o InsertSorted(Tail(sorted), r)

\* sorted(reviews, key=...): a stable sort
RECURSIVE SortedFrom(_, _)
SortedFrom(rs, acc) ==
    IF rs = <<>> THEN acc ELSE SortedFrom(Tail(rs), InsertSorted(acc, rs[1]))

\* mutant: the list is left in the order it came in
reviews_sorted_Unsorted(rs) == rs

reviews_sorted(rs) == SortedFrom(rs, <<>>)

\* next((r for r in reviews_sorted if r.get("submitted_at")), None)
first_review(rs) ==
    LET timed == SelectSeq(reviews_sorted(rs), LAMBDA r : r.submitted_at # None)
    IN  IF timed = <<>> THEN None ELSE <<timed[1]>>

\* the entry appended to pr_metrics for pr with the reviews rs (lines 273-304)
PRMetric(pr, rs) ==
    LET created_at == iso_to_dt(pr.created_at)
        first == IF rs = <<>> THEN None ELSE first_review(rs)
    IN  [pr_number |-> pr.number, title |-> pr.title, created_at |-> created_at,
         first_review_at |->
             IF first = None THEN None ELSE <<iso_to_dt(first[1].submitted_at)>>,
         time_to_first_review_hours |->
             IF first = None THEN None
             ELSE <<iso_to_dt(first[1].submitted_at) - created_at>>]

\* mutant: the list of the reviewer is started anew at every review
AppendMetric_Overwrite(metrics, reviewer, hours) == (reviewer :> <<hours>>) @@ metrics

\* reviewer_metrics[reviewer].append(hours) on a defaultdict(list)
AppendMetric(metrics, reviewer, hours) ==
    IF reviewer \in DOMAIN metrics
    THEN [metrics EXCEPT ![reviewer] = Append(@, hours)]
    ELSE (reviewer :> <<hours>>) @@ metrics

\* the loop of lines 307-315 over the sorted reviews
RECURSIVE AccumulateReviewers(_, _, _)
AccumulateReviewers(metrics, rs, created_at) ==
    IF rs = <<>> THEN metrics
    ELSE LET r == rs[1]
         IN  IF r.submitted_at = None
             THEN AccumulateReviewers(metrics, Tail(rs), created_at)
             ELSE AccumulateReviewers(
                      AppendMetric(metrics, r.user.login,
                                   iso_to_dt(r.submitted_at) - created_at),
                      Tail(rs), created_at)

\* mutant: a review without submitted_at counts as submitted at created_at
ReviewerMetricsAfter_CountsPending(metrics, pr, rs) ==
    AccumulateReviewers(
        metrics,
        [k \in 1..Len(rs) |->
            IF reviews_sorted(rs)[k].submitted_at = None
            THEN [reviews_sorted(rs)[k] EXCEPT !.submitted_at = pr.created_at]
            ELSE reviews_sorted(rs)[k]],
        iso_to_dt(pr.created_at))

\* reviewer_metrics after the pull request pr with the reviews rs
ReviewerMetricsAfter(metrics, pr, rs) ==
    AccumulateReviewers(metrics, reviews_sorted(rs), iso_to_dt(pr.created_at))

(***************************************************************************)
(* The report (get_stats, lines 321-339).                                  *)
(***************************************************************************)
RECURSIVE SumSeq(_)
SumSeq(s) == IF s = <<>> THEN 0 ELSE s[1] + SumSeq(Tail(s))

MinSeq(s) == CHOOSE x \in {s[k] : k \in 1..Len(s)} : \A k \in 1..Len(s) : x <= s[k]
MaxSeq(s) == CHOOSE x \in {s[k] : k \in 1..Len(s)} : \A k \in 1..Len(s) : x >= s[k]

\* the logins in the order Python's string comparison gives them
LoginOrder == <<"alice", "bob">>

\* mutant: the keys present, descending
SortedLogins_Descending(metrics) ==
    LET present == SelectSeq(LoginOrder, LAMBDA l : l \in DOMAIN metrics)
    IN  [k \in 1..Len(present) |-> present[Len(present) + 1 - k]]

\* sorted(reviewer_metrics.items()): the keys present, ascending
SortedLogins(metrics) == SelectSeq(LoginOrder, LAMBDA l : l \in DOMAIN metrics)

\* one block of the reviewer statistics; the average is kept as <<sum, count>>
ReviewerStat(reviewer, times) ==
    [reviewer |-> reviewer, avg |-> <<SumSeq(times), Len(times)>>,
     fastest |-> MinSeq(times), slowest |-> MaxSeq(times), count |-> Len(times)]

Report(prm, metrics) ==
    [pr_metrics |-> prm,
     reviewer_stats |->
         LET keys == SortedLogins(metrics)
         IN  [k \in 1..Len(keys) |-> ReviewerStat(keys[k], metrics[keys[k]])]]

(***************************************************************************)
(* The date filter (get_stats, lines 195-210 and 230-244).                 *)
(***************************************************************************)
\* from_dt of lines 199-202
ParseFrom(from_arg) == IF from_arg # None THEN <<iso_to_dt(from_arg)>> ELSE None

\* to_dt of lines 204-210: now when only from_date is given
ParseTo(from_arg, to_arg, clock) ==
    IF to_arg # None THEN <<iso_to_dt(to_arg)>>
    ELSE IF from_arg # None THEN <<clock>>
    ELSE None

\* mutant: the comparisons skip the bounds themselves
Passes_Exclusive(p, from, to) ==
    LET created_at == iso_to_dt(p.created_at)
    IN  /\ ~(from # None /\ created_at <= from[1])
        /\ ~(to # None /\ created_at >= to[1])

\* whether the loop of lines 233-241 appends p
Passes(p, from, to) ==
    LET created_at == iso_to_dt(p.created_at)
    IN  /\ ~(from # None /\ created_at < from[1])
        /\ ~(to # None /\ created_at > to[1])

\* mutant: the filtered list is built but all_prs is not rebound to it
DateFilter_KeepsAll(prs, from, to) == prs

\* all_prs after lines 231-244
DateFilter(prs, from, to) ==
    IF from # None \/ to # None
    THEN SelectSeq(prs, LAMBDA p : Passes(p, from, to))
    ELSE prs


(***************************************************************************)
(* The process: main's prompt, and one get_stats run per command.          *)
(***************************************************************************)
Init ==
    /\ pull_requests = {}
    /\ reviews_tbl = <<>>
    /\ txn = None
    /\ saved = [n \in PRNumbers |-> None]
    /\ pc = "idle"
    /\ error = "none"
    /\ from_date = None
    /\ to_date = None
    /\ now = None
    /\ from_dt = None
    /\ to_dt = None
    /\ results = <<>>
    /\ all_prs = <<>>
    /\ fetched_prs = <<>>
    /\ i = 1
    /\ reviews = <<>>
    /\ j = 1
    /\ pr_metrics = <<>>
    /\ reviewer_metrics = <<>>
    /\ output = None
    /\ requests = <<>>
    /\ consumed = <<>>
    /\ written = <<>>

\* the pull request the loops of lines 227 and 249 hold
pr == all_prs[i]

\* mutant: the request is tried again
AfterHTTPError_Retry == pc

\* where an HTTP error status leaves the process: raise_for_status raises, and
\* neither fetch_all nor get_stats catches
AfterHTTPError == "aborted"

\* get_stats is entered: init_database finds the tables, the dates are parsed
\* (lines 193-218), and fetch_all starts on the pull-request collection
StartRun(from_arg, to_arg, clock) ==
    /\ pc = "idle"
    /\ from_date' = from_arg
    /\ to_date' = to_arg
    /\ now' = IF to_arg = None /\ from_arg # None THEN <<clock>> ELSE None
    /\ from_dt' = ParseFrom(from_arg)
    /\ to_dt' = ParseTo(from_arg, to_arg, clock)
    /\ UNCHANGED saved
    /\ results' = <<>>
    /\ requests' = Append(requests, <<"prs">>)
    /\ pc' = "fetch_prs"
    /\ UNCHANGED <<pull_requests, reviews_tbl, txn, error, all_prs, fetched_prs, i,
                   reviews, j, pr_metrics, reviewer_metrics, output, consumed, written>>

\* one turn of fetch_all's loop with a success status: the page extends results,
\* and the Link header names a next page or not
GetPage(page, more, max) ==
    /\ Len(results) + Len(page) <= max
    /\ more => (page # <<>> /\ Len(results) + Len(page) < max)
    /\ results' = results \o page

\* mutant: the first pull request of a page is upserted as the page arrives
FetchPRsPage_CachesPage(page, more) ==
    /\ pc = "fetch_prs"
    /\ GetPage(page, more, MaxPRs)
    /\ pull_requests' =
           IF page = <<>> THEN pull_requests ELSE InsertOrReplace(pull_requests, page[1])
    /\ saved' = IF page = <<>> THEN saved ELSE [saved EXCEPT ![page[1].number] = <<page[1]>>]
    /\ IF more
       THEN UNCHANGED <<pc, all_prs, fetched_prs, i>>
       ELSE /\ all_prs' = results'
            /\ fetched_prs' = results'
            /\ i' = 1
            /\ pc' = "cache_prs"
    /\ UNCHANGED <<reviews_tbl, txn, error, from_date, to_date, now, from_dt, to_dt,
                   reviews, j, pr_metrics, reviewer_metrics, output, requests, consumed,
                   written>>

\* fetch_all at line 222, one page
FetchPRsPage(page, more) ==
    /\ pc = "fetch_prs"
    /\ GetPage(page, more, MaxPRs)
    /\ IF more
       THEN UNCHANGED <<pc, all_prs, fetched_prs, i>>
       ELSE /\ all_prs' = results'
            /\ fetched_prs' = results'
            /\ i' = 1
            /\ pc' = "cache_prs"
    /\ UNCHANGED <<pull_requests, reviews_tbl, txn, error, from_dt, to_dt, reviews, j,
                   pr_metrics, reviewer_metrics, output, requests, consumed, written>>
    /\ UNCHANGED <<saved, from_date, to_date, now>>

\* a GET answers with an error status: raise_for_status raises (line 68)
HTTPError ==
    /\ pc \in {"fetch_prs", "fetch_reviews"}
    /\ error' = "HTTPError"
    /\ pc' = AfterHTTPError
    /\ UNCHANGED <<pull_requests, reviews_tbl, txn, from_dt, to_dt, results, all_prs,
                   fetched_prs, i, reviews, j, pr_metrics, reviewer_metrics, output,
                   requests, consumed, written>>
    /\ UNCHANGED <<saved, from_date, to_date, now>>

\* mutant: the rows of the numbers the remote list no longer holds are dropped
CachePR_Prune ==
    /\ pc = "cache_prs"
    /\ i <= Len(all_prs)
    /\ pull_requests' =
           {row \in InsertOrReplace(pull_requests, pr) :
                \E k \in 1..Len(all_prs) : all_prs[k].number = row.pr_number}
    /\ saved' = [saved EXCEPT ![pr.number] = <<pr>>]
    /\ i' = i + 1
    /\ UNCHANGED <<reviews_tbl, txn, pc, error, from_date, to_date, now, from_dt, to_dt,
                   results, all_prs, fetched_prs, reviews, j, pr_metrics,
                   reviewer_metrics, output, requests, consumed, written>>

\* save_pr_to_db(pr) of line 228: one statement and its commit
CachePR ==
    /\ pc = "cache_prs"
    /\ i <= Len(all_prs)
    /\ pull_requests' = InsertOrReplace(pull_requests, pr)
    /\ reviews_tbl' = ReviewsAfterReplace(reviews_tbl, pr.number)
    /\ saved' = [saved EXCEPT ![pr.number] = <<pr>>]
    /\ UNCHANGED <<from_date, to_date, now>>
    /\ i' = i + 1
    /\ UNCHANGED <<txn, pc, error, from_dt, to_dt, results, all_prs,
                   fetched_prs, reviews, j, pr_metrics, reviewer_metrics, output,
                   requests, consumed, written>>

\* mutant: the filter is applied whether or not the loop of line 227 is through
ApplyDateFilter_BeforeCaching ==
    /\ pc = "cache_prs"
    /\ all_prs' = DateFilter(all_prs, from_dt, to_dt)
    /\ reviewer_metrics' = <<>>
    /\ pr_metrics' = <<>>
    /\ i' = 1
    /\ pc' = "loop"
    /\ UNCHANGED <<pull_requests, reviews_tbl, txn, saved, error, from_date, to_date, now,
                   from_dt, to_dt, results, fetched_prs, reviews, j, output, requests,
                   consumed, written>>

\* lines 230-247: the date filter, then the empty accumulators
ApplyDateFilter ==
    /\ pc = "cache_prs"
    /\ i > Len(all_prs)
    /\ all_prs' = DateFilter(all_prs, from_dt, to_dt)
    /\ reviewer_metrics' = <<>>
    /\ pr_metrics' = <<>>
    /\ i' = 1
    /\ pc' = "loop"
    /\ UNCHANGED <<pull_requests, reviews_tbl, txn, error, from_dt, to_dt, results,
                   fetched_prs, reviews, j, output, requests, consumed, written>>
    /\ UNCHANGED <<saved, from_date, to_date, now>>

\* mutant: the cache is never used
UsesCache_Never(p) == FALSE

\* mutant: the cache is used whatever the state of the pull request
UsesCache_AnyState(p) == get_reviews_from_db(p.number) # <<>>

\* whether lines 259-271 take the reviews of p from the cache
UsesCache(p) == p.state = "closed" /\ get_reviews_from_db(p.number) # <<>>

\* lines 249-271, up to the choice between the cache and the remote
ProcessPR ==
    /\ pc = "loop"
    /\ i <= Len(all_prs)
    /\ IF UsesCache(pr)
       THEN /\ reviews' = get_reviews_from_db(pr.number)
            /\ pc' = "aggregate"
            /\ UNCHANGED <<results, requests>>
       ELSE /\ results' = <<>>
            /\ requests' = Append(requests, <<"reviews", pr.number>>)
            /\ pc' = "fetch_reviews"
            /\ UNCHANGED reviews
    /\ UNCHANGED <<pull_requests, reviews_tbl, txn, error, from_dt, to_dt, all_prs,
                   fetched_prs, i, j, pr_metrics, reviewer_metrics, output, consumed,
                   written>>
    /\ UNCHANGED <<saved, from_date, to_date, now>>

\* fetch_reviews(pr_number) at line 265 or 270, one page; the remote lists a
\* review once
FetchReviewsPage(page, more) ==
    /\ pc = "fetch_reviews"
    /\ GetPage(page, more, MaxReviews)
    /\ NoRepeat(results')
    /\ IF more
       THEN UNCHANGED <<pc, reviews>>
       ELSE /\ reviews' = results'
            /\ pc' = "save_delete"
    /\ UNCHANGED <<pull_requests, reviews_tbl, txn, error, from_dt, to_dt, all_prs,
                   fetched_prs, i, j, pr_metrics, reviewer_metrics, output, requests,
                   consumed, written>>
    /\ UNCHANGED <<saved, from_date, to_date, now>>

\* save_reviews_to_db, line 109: the DELETE opens the transaction
SaveDelete ==
    /\ pc = "save_delete"
    /\ txn' = <<DeleteReviews(reviews_tbl, pr.number)>>
    /\ j' = 1
    /\ pc' = "save_insert"
    /\ UNCHANGED <<pull_requests, reviews_tbl, error, from_dt, to_dt, results, all_prs,
                   fetched_prs, i, reviews, pr_metrics, reviewer_metrics, output,
                   requests, consumed, written>>
    /\ UNCHANGED <<saved, from_date, to_date, now>>

\* mutant: every INSERT commits on its own (autocommit)
SaveInsert_Autocommit ==
    /\ pc = "save_insert"
    /\ j <= Len(reviews)
    /\ reviews_tbl' = InsertReview(reviews_tbl, pr.number, reviews[j])
    /\ txn' = <<reviews_tbl'>>
    /\ j' = j + 1
    /\ UNCHANGED <<pull_requests, saved, pc, error, from_date, to_date, now, from_dt,
                   to_dt, results, all_prs, fetched_prs, i, reviews, pr_metrics,
                   reviewer_metrics, output, requests, consumed, written>>

\* save_reviews_to_db, lines 112-120: one INSERT, inside the transaction
SaveInsert ==
    /\ pc = "save_insert"
    /\ j <= Len(reviews)
    /\ txn' = <<InsertReview(txn[1], pr.number, reviews[j])>>
    /\ j' = j + 1
    /\ UNCHANGED <<pull_requests, reviews_tbl, pc, error, from_dt, to_dt, results,
                   all_prs, fetched_prs, i, reviews, pr_metrics, reviewer_metrics,
                   output, requests, consumed, written>>
    /\ UNCHANGED <<saved, from_date, to_date, now>>

\* mutant: the connection is closed without the commit
SaveCommit_NoCommit ==
    /\ pc = "save_insert"
    /\ j > Len(reviews)
    /\ txn' = None
    /\ written' = Append(written, <<pr.number, reviews>>)
    /\ pc' = "aggregate"
    /\ UNCHANGED <<pull_requests, reviews_tbl, saved, error, from_date, to_date, now,
                   from_dt, to_dt, results, all_prs, fetched_prs, i, reviews, j,
                   pr_metrics, reviewer_metrics, output, requests, consumed>>

\* save_reviews_to_db, lines 122-123: the commit publishes the transaction
SaveCommit ==
    /\ pc = "save_insert"
    /\ j > Len(reviews)
    /\ reviews_tbl' = txn[1]
    /\ txn' = None
    /\ written' = Append(written, <<pr.number, reviews>>)
    /\ pc' = "aggregate"
    /\ UNCHANGED <<pull_requests, error, from_dt, to_dt, results, all_prs, fetched_prs,
                   i, reviews, j, pr_metrics, reviewer_metrics, output, requests,
                   consumed>>
    /\ UNCHANGED <<saved, from_date, to_date, now>>

\* a store call raises (sqlite3.Error): the connection is dropped without a
\* commit, which rolls its transaction back
StoreError ==
    /\ \/ pc = "cache_prs" /\ i <= Len(all_prs)
       \/ pc \in {"save_delete", "save_insert"}
    /\ txn' = None
    /\ error' = "StoreError"
    /\ pc' = "aborted"
    /\ UNCHANGED <<pull_requests, reviews_tbl, from_dt, to_dt, results, all_prs,
                   fetched_prs, i, reviews, j, pr_metrics, reviewer_metrics, output,
                   requests, consumed, written>>
    /\ UNCHANGED <<saved, from_date, to_date, now>>

\* lines 273-315: the metrics of the pull request in hand, then the next one
Aggregate ==
    /\ pc = "aggregate"
    /\ pr_metrics' = Append(pr_metrics, PRMetric(pr, reviews))
    /\ reviewer_metrics' =
           IF reviews = <<>> THEN reviewer_metrics
           ELSE ReviewerMetricsAfter(reviewer_metrics, pr, reviews)
    /\ consumed' = Append(consumed, reviews)
    /\ i' = i + 1
    /\ pc' = "loop"
    /\ UNCHANGED <<pull_requests, reviews_tbl, txn, error, from_dt, to_dt, results,
                   all_prs, fetched_prs, reviews, j, output, requests, written>>
    /\ UNCHANGED <<saved, from_date, to_date, now>>

\* lines 321-339: the report, and get_stats returns
PrintResults ==
    /\ pc = "loop"
    /\ i > Len(all_prs)
    /\ output' = <<Report(pr_metrics, reviewer_metrics)>>
    /\ pc' = "done"
    /\ UNCHANGED <<pull_requests, reviews_tbl, txn, error, from_dt, to_dt, results,
                   all_prs, fetched_prs, i, reviews, j, pr_metrics, reviewer_metrics,
                   requests, consumed, written>>
    /\ UNCHANGED <<saved, from_date, to_date, now>>

\* main, lines 398-427: get_stats returned or its exception was printed; its
\* locals are gone and the prompt waits for the next command
ReturnToPrompt ==
    /\ pc \in {"done", "aborted"}
    /\ pc' = "idle"
    /\ error' = "none"
    /\ from_date' = None
    /\ to_date' = None
    /\ now' = None
    /\ UNCHANGED saved
    /\ from_dt' = None
    /\ to_dt' = None
    /\ results' = <<>>
    /\ all_prs' = <<>>
    /\ fetched_prs' = <<>>
    /\ i' = 1
    /\ reviews' = <<>>
    /\ j' = 1
    /\ pr_metrics' = <<>>
    /\ reviewer_metrics' = <<>>
    /\ output' = None
    /\ requests' = <<>>
    /\ consumed' = <<>>
    /\ written' = <<>>
    /\ UNCHANGED <<pull_requests, reviews_tbl, txn>>

Next ==
    \/ \E from_arg \in FromArgs, to_arg \in ToArgs, clock \in NowValues :
           StartRun(from_arg, to_arg, clock)
    \/ \E page \in SeqsUpTo(PRDomain, MaxPRs), more \in BOOLEAN : FetchPRsPage(page, more)
    \/ HTTPError
    \/ CachePR
    \/ ApplyDateFilter
    \/ ProcessPR
    \/ \E page \in SeqsUpTo(ReviewDomain, MaxReviews), more \in BOOLEAN :
           FetchReviewsPage(page, more)
    \/ SaveDelete
    \/ SaveInsert
    \/ SaveCommit
    \/ StoreError
    \/ Aggregate
    \/ PrintResults
    \/ ReturnToPrompt

Spec == Init /\ [][Next]_vars


(***************************************************************************)
(* The date filter alone: one run up to line 244, over every window and    *)
(* every list of pull requests created around the bounds.                  *)
(***************************************************************************)
NextFilter ==
    \/ \E from_arg \in FilterDateArgs, to_arg \in FilterDateArgs, clock \in FilterNowValues :
           StartRun(from_arg, to_arg, clock)
    \/ \E page \in SeqsUpTo(FilterPRDomain, MaxPRs) : FetchPRsPage(page, FALSE)
    \/ CachePR
    \/ ApplyDateFilter

SpecFilter == Init /\ [][NextFilter]_vars

(***************************************************************************)
(* The aggregation alone: one run without failures, with or without a      *)
(* lower bound of the window, over lists of different pull requests and    *)
(* reviews of both reviewers, pending or submitted at different times.     *)
(***************************************************************************)
\* no pull-request number occurs twice in the list prs
DistinctNumbers(prs) ==
    \A a \in 1..Len(prs), b \in 1..Len(prs) : prs[a].number = prs[b].number => a = b

NextAgg ==
    \/ \E from_arg \in FromArgs, clock \in NowValues : StartRun(from_arg, None, clock)
    \/ \E page \in {prs \in SeqsUpTo(PRDomain, MaxPRs) : DistinctNumbers(prs)} :
           FetchPRsPage(page, FALSE)
    \/ CachePR
    \/ ApplyDateFilter
    \/ ProcessPR
    \/ \E page \in SeqsUpTo(AggReviewDomain, MaxReviews) : FetchReviewsPage(page, FALSE)
    \/ SaveDelete
    \/ SaveInsert
    \/ SaveCommit
    \/ Aggregate
    \/ PrintResults

SpecAgg == Init /\ [][NextAgg]_vars


(***************************************************************************)
(* Helpers of the properties.                                              *)
(***************************************************************************)
Range(s) == {s[k] : k \in 1..Len(s)}

\* how often x occurs in the sequence s
CountIn(s, x) == Cardinality({k \in 1..Len(s) : s[k] = x})

\* the two sequences hold the same elements, each as often
SameMultiset(a, b) == \A x \in Range(a) \cup Range(b) : CountIn(a, x) = CountIn(b, x)

\* the line-249 loop holds a pull request and is at its top
AtLoopTop == pc = "loop" /\ i <= Len(all_prs)

\* the last entry of the sequence s that satisfies Test
LastIndex(s, Test(_)) ==
    CHOOSE k \in 1..Len(s) : Test(s[k]) /\ \A m \in (k + 1)..Len(s) : ~Test(s[m])

MinOf(S) == CHOOSE x \in S : \A y \in S : x <= y
MaxOf(S) == CHOOSE x \in S : \A y \in S : x >= y

\* the remote list of this run holds the number n with a created_at outside of
\* the window [from_dt, to_dt]
Excluded(n) ==
    \E k \in 1..Len(fetched_prs) :
        /\ fetched_prs[k].number = n
        /\ \/ from_dt # None /\ iso_to_dt(fetched_prs[k].created_at) < from_dt[1]
           \/ to_dt # None /\ iso_to_dt(fetched_prs[k].created_at) > to_dt[1]

\* every pull request of the remote list of this run is in pull_requests as the
\* list returned it (a number the list holds twice: as it returned it last)
AllFetchedCached ==
    \A k \in 1..Len(fetched_prs) :
        LET n == fetched_prs[k].number
            last == LastIndex(fetched_prs, LAMBDA p : p.number = n)
        IN  /\ get_pr_from_db(n) = <<fetched_prs[last]>>
            /\ \E row \in pull_requests :
                   /\ row.pr_number = n
                   /\ row.state = fetched_prs[last].state

\* the place of a login in the ascending order of the logins
Rank(login) == CHOOSE k \in 1..Len(LoginOrder) : LoginOrder[k] = login

\* the positions <<k, m>> of the reviews with a submitted_at that the reviewer
\* login gave on the processed pull requests: review m of the k-th one
TimedPositions(login) ==
    UNION {{<<k, m>> : m \in {m \in 1..Len(consumed[k]) :
                                 /\ consumed[k][m].submitted_at # None
                                 /\ consumed[k][m].user.login = login}} :
           k \in 1..Len(consumed)}

\* submitted_at of the review at position p minus created_at of its pull request
HoursAt(p) ==
    iso_to_dt(consumed[p[1]][p[2]].submitted_at) - iso_to_dt(all_prs[p[1]].created_at)

\* the reviews of rs that have a submitted_at, in the order of rs
Timed(rs) == SelectSeq(rs, LAMBDA r : r.submitted_at # None)

\* the list reviewer_metrics holds for a login, empty when it holds none
EntriesOf(metrics, login) == IF login \in DOMAIN metrics THEN metrics[login] ELSE <<>>

(***************************************************************************)
(* C1: a closed pull request whose cached review set is not empty when it  *)
(* is processed is served from the cache: that step calls no fetch_all,    *)
(* leaves the reviews table and its transaction alone and hands the cached *)
(* reviews to the aggregation, which reads exactly them.                   *)
(***************************************************************************)
C1_ClosedCachedServedFromCache ==
    [][ /\ (AtLoopTop /\ pr.state = "closed" /\ get_reviews_from_db(pr.number) # <<>>)
            => /\ pc' = "aggregate"
               /\ requests' = requests
               /\ reviews_tbl' = reviews_tbl
               /\ txn' = None
               /\ reviews' = get_reviews_from_db(pr.number)
        /\ (pc = "aggregate")
            => /\ consumed' = Append(consumed, reviews)
               /\ requests' = requests
               /\ reviews_tbl' = reviews_tbl
               /\ txn' = None
      ]_vars

C1_Witness ==
    /\ pc = "aggregate"
    /\ pr.state = "closed"
    /\ <<"reviews", pr.number>> \notin Range(requests)
    /\ written = <<>>
    /\ Len(reviews) = 2
    /\ reviews = get_reviews_from_db(pr.number)

(***************************************************************************)
(* C2 as stated: every finished run has fetched the reviews of every open  *)
(* pull request of the remote list, with or without a date window.         *)
(***************************************************************************)
C2_Original ==
    pc = "done" =>
        \A k \in 1..Len(fetched_prs) :
            fetched_prs[k].state = "open"
                => <<"reviews", fetched_prs[k].number>> \in Range(requests)

(***************************************************************************)
(* C2 as amended: an open pull request that the date filter retains is     *)
(* fetched from the remote whenever the run reaches it, whatever the cache *)
(* holds for it; so a finished run has fetched every retained open one.    *)
(***************************************************************************)
C2_OpenRetainedAlwaysFetched ==
    /\ [][ (AtLoopTop /\ pr.state = "open")
               => /\ pc' = "fetch_reviews"
                  /\ requests' = Append(requests, <<"reviews", pr.number>>)
         ]_vars
    /\ [](pc = "done" =>
            /\ all_prs = DateFilter(fetched_prs, from_dt, to_dt)
            /\ \A k \in 1..Len(all_prs) :
                   all_prs[k].state = "open"
                       => <<"reviews", all_prs[k].number>> \in Range(requests))

C2_Witness ==
    /\ pc = "fetch_reviews"
    /\ pr.state = "open"
    /\ Len(get_reviews_from_db(pr.number)) = 2
    /\ requests[Len(requests)] = <<"reviews", pr.number>>

(***************************************************************************)
(* C3: a closed pull request whose cached review set is empty when it is   *)
(* processed is fetched from the remote; the complete result goes to       *)
(* save_reviews_to_db, and the loop moves on only once the cache holds it. *)
(* An empty result leaves the cache empty, so the next run fetches again.  *)
(***************************************************************************)
C3_ClosedUncachedFetchedThenWritten ==
    [][ /\ (AtLoopTop /\ pr.state = "closed" /\ get_reviews_from_db(pr.number) = <<>>)
            => /\ pc' = "fetch_reviews"
               /\ requests' = Append(requests, <<"reviews", pr.number>>)
        /\ (pc = "fetch_reviews" /\ pc' \notin {"fetch_reviews", "aborted"})
            => /\ pc' = "save_delete"
               /\ reviews' = results'
               /\ i' = i
        /\ (pc \in {"save_delete", "save_insert"} /\ pc' \notin {"save_insert", "aborted"})
            => /\ pc' = "aggregate"
               /\ i' = i
               /\ written' = Append(written, <<pr.number, reviews>>)
               /\ ReviewsIn(reviews_tbl', pr.number) = reviews
        /\ (pc = "aggregate")
            => /\ get_reviews_from_db(pr.number) = reviews
               /\ i' = i + 1
      ]_vars

C3_Witness ==
    /\ pc = "aggregate"
    /\ pr.state = "closed"
    /\ requests[Len(requests)] = <<"reviews", pr.number>>
    /\ written = <<<<pr.number, <<>>>>>>
    /\ get_reviews_from_db(pr.number) = <<>>

(***************************************************************************)
(* C4: when save_reviews_to_db(n, R) has committed, get_reviews_from_db(n) *)
(* returns the elements of R, each as often as R holds it, and none of the *)
(* reviews stored before; with R empty it returns nothing.                 *)
(***************************************************************************)
C4_SaveThenGetReturnsR ==
    [][ (pc = "save_insert" /\ pc' = "aggregate")
            => /\ SameMultiset(ReviewsIn(reviews_tbl', pr.number), reviews)
               /\ Len(ReviewsIn(reviews_tbl', pr.number)) = Len(reviews)
               /\ (reviews = <<>> => ReviewsIn(reviews_tbl', pr.number) = <<>>)
      ]_vars

C4_Witness ==
    /\ pc = "aggregate"
    /\ Len(written) = 2
    /\ written[1][1] = written[2][1]
    /\ Len(written[1][2]) = 2
    /\ written[2][2] = <<>>
    /\ get_reviews_from_db(pr.number) = <<>>

(***************************************************************************)
(* C5: the committed review set of a pull request changes only by the      *)
(* commit of save_reviews_to_db for that pull request, and then to the     *)
(* complete result of the fetch just made for it; a failure at whatever    *)
(* step, also between the DELETE and the INSERTs, leaves it as it was.     *)
(***************************************************************************)
C5_CacheIsOneCompleteFetch ==
    [][ \A n \in PRNumbers :
            \/ ReviewsIn(reviews_tbl', n) = ReviewsIn(reviews_tbl, n)
            \/ /\ pc = "save_insert"
               /\ pc' = "aggregate"
               /\ n = pr.number
               /\ requests[Len(requests)] = <<"reviews", n>>
               /\ reviews = results
               /\ ReviewsIn(reviews_tbl', n) = results
      ]_vars

C5_Witness ==
    /\ pc = "aborted"
    /\ error = "StoreError"
    /\ Len(reviews) = 2
    /\ j = 2
    /\ Len(get_reviews_from_db(pr.number)) = 1
    /\ get_reviews_from_db(pr.number)[1] # reviews[1]

(***************************************************************************)
(* C6: pull_requests holds one row for each number save_pr_to_db ever took *)
(* and none for the others, and get_pr_from_db returns the pull request    *)
(* of the latest save for that number.                                     *)
(***************************************************************************)
C6_OneRowLatestPayload ==
    \A n \in PRNumbers :
        /\ Cardinality({row \in pull_requests : row.pr_number = n})
               = IF saved[n] = None THEN 0 ELSE 1
        /\ get_pr_from_db(n) = saved[n]

C6_Witness ==
    /\ pc = "cache_prs"
    /\ i = 3
    /\ all_prs[1].number = all_prs[2].number
    /\ all_prs[1] # all_prs[2]
    /\ get_pr_from_db(all_prs[2].number) = <<all_prs[2]>>

(***************************************************************************)
(* C7: when a review fetch fails, the rows the run upserted and the review *)
(* sets it committed for the pull requests before are in the cache as      *)
(* written (for a number written twice, as written last).                  *)
(***************************************************************************)
C7_EarlierWritesSurviveFetchFailure ==
    (pc = "aborted" /\ error = "HTTPError" /\ Len(requests) > 1) =>
        /\ \A k \in 1..Len(fetched_prs) :
               LET n == fetched_prs[k].number
                   last == LastIndex(fetched_prs, LAMBDA p : p.number = n)
               IN  get_pr_from_db(n) = <<fetched_prs[last]>>
        /\ \A k \in 1..Len(written) :
               LET n == written[k][1]
                   last == LastIndex(written, LAMBDA w : w[1] = n)
               IN  get_reviews_from_db(n) = written[last][2]

C7_Witness ==
    /\ pc = "aborted"
    /\ error = "HTTPError"
    /\ i = 2
    /\ Len(written) = 1
    /\ Len(get_reviews_from_db(written[1][1])) = 2
    /\ all_prs[2].number # all_prs[1].number

(***************************************************************************)
(* C8: after an error status of a GET the run only returns to the prompt:  *)
(* no request is made again, no table is written, nothing is printed.      *)
(***************************************************************************)
C8_HTTPErrorAbortsRun ==
    [][ error = "HTTPError"
            => /\ pc = "aborted"
               /\ pc' = "idle"
               /\ requests' \in {requests, <<>>}
               /\ UNCHANGED <<pull_requests, reviews_tbl, txn>>
               /\ output = None
               /\ output' = None
      ]_vars

C8_Witness ==
    /\ pc = "aborted"
    /\ error = "HTTPError"
    /\ Len(requests) = 2
    /\ pr_metrics # <<>>
    /\ output = None

(***************************************************************************)
(* C9 as stated: the filter retains, in order, exactly the pull requests   *)
(* with created_at >= from when from_date is given and created_at <= to    *)
(* when to_date is given.                                                  *)
(***************************************************************************)
C9_Original ==
    (pc = "loop" /\ i = 1 /\ pr_metrics = <<>>) =>
        all_prs = SelectSeq(fetched_prs,
                      LAMBDA p :
                          /\ from_date # None => iso_to_dt(p.created_at) >= iso_to_dt(from_date)
                          /\ to_date # None => iso_to_dt(p.created_at) <= iso_to_dt(to_date))

(***************************************************************************)
(* C9 as amended: the upper bound is to_date when it is given and the      *)
(* clock reading of the invocation when only from_date is given; both      *)
(* bounds are inclusive, the order is kept, and without either argument    *)
(* every pull request is retained.                                         *)
(***************************************************************************)
C9_FilterInclusiveWindow ==
    (pc = "loop" /\ i = 1 /\ pr_metrics = <<>>) =>
        /\ all_prs = SelectSeq(fetched_prs,
                      LAMBDA p :
                          /\ from_date # None => iso_to_dt(p.created_at) >= iso_to_dt(from_date)
                          /\ to_date # None => iso_to_dt(p.created_at) <= iso_to_dt(to_date)
                          /\ (to_date = None /\ from_date # None)
                                 => iso_to_dt(p.created_at) <= now[1])
        /\ (from_date = None /\ to_date = None) => all_prs = fetched_prs

C9_Witness ==
    /\ pc = "loop"
    /\ i = 1
    /\ from_date = <<1, 1>>
    /\ to_date = <<1, 1>>
    /\ Len(fetched_prs) = 2
    /\ fetched_prs[1].created_at = <<1, 2>>
    /\ fetched_prs[2].created_at = <<1, 1>>
    /\ all_prs = <<fetched_prs[2]>>

(***************************************************************************)
(* C10: first_review_at is the earliest submitted_at among the reviews of  *)
(* the pull request that have one, time_to_first_review_hours is that time *)
(* minus created_at in hours, negative or not, and both are None exactly   *)
(* when no review has a submitted_at.                                      *)
(***************************************************************************)
C10_FirstReviewIsEarliest ==
    \A k \in 1..Len(pr_metrics) :
        LET rs == consumed[k]
            created == iso_to_dt(all_prs[k].created_at)
            timed == {iso_to_dt(rs[m].submitted_at) :
                          m \in {m \in 1..Len(rs) : rs[m].submitted_at # None}}
            metric == pr_metrics[k]
        IN  /\ metric.pr_number = all_prs[k].number
            /\ (timed = {}) <=> (metric.first_review_at = None)
            /\ (timed = {}) <=> (metric.time_to_first_review_hours = None)
            /\ timed # {} =>
                   /\ metric.first_review_at = <<MinOf(timed)>>
                   /\ metric.time_to_first_review_hours = <<MinOf(timed) - created>>

C10_Witness ==
    /\ Len(pr_metrics) = 2
    /\ consumed[1] = <<RemoteReview("bob", <<1, 10>>), RemoteReview("alice", <<1, 5>>)>>
    /\ all_prs[1].number = 1
    /\ pr_metrics[1].time_to_first_review_hours = <<5>>
    /\ consumed[2] = <<RemoteReview("bob", None), RemoteReview("alice", <<1, 10>>)>>
    /\ all_prs[2].number = 2
    /\ pr_metrics[2].time_to_first_review_hours = <<0 - 14>>

(***************************************************************************)
(* C11: a review without submitted_at never becomes the first review and   *)
(* adds no entry to a reviewer's list, whatever other reviews the pull     *)
(* request has; a pull request whose reviews are all pending gets the      *)
(* metric of a pull request without reviews (both fields None) and leaves  *)
(* reviewer_metrics as it was.                                             *)
(***************************************************************************)
C11_PendingReviewsIgnored ==
    [][ pc = "aggregate" =>
            LET timed == Timed(reviews)
                metric == pr_metrics'[Len(pr_metrics')]
            IN  /\ \A l \in Logins :
                       Len(EntriesOf(reviewer_metrics', l))
                           = Len(EntriesOf(reviewer_metrics, l))
                             + Cardinality({m \in 1..Len(timed) : timed[m].user.login = l})
                /\ metric.first_review_at # None =>
                       \E m \in 1..Len(timed) :
                           metric.first_review_at = <<iso_to_dt(timed[m].submitted_at)>>
                /\ timed = <<>> =>
                       /\ metric = [pr_number |-> pr.number, title |-> pr.title,
                                    created_at |-> iso_to_dt(pr.created_at),
                                    first_review_at |-> None,
                                    time_to_first_review_hours |-> None]
                       /\ reviewer_metrics' = reviewer_metrics
      ]_vars

C11_Witness ==
    /\ pc = "loop"
    /\ Len(pr_metrics) = 2
    /\ consumed[1] = <<RemoteReview("bob", None)>>
    /\ pr_metrics[1].first_review_at = None
    /\ pr_metrics[1].time_to_first_review_hours = None
    /\ consumed[2] = <<RemoteReview("bob", None), RemoteReview("alice", <<1, 5>>)>>
    /\ pr_metrics[2].first_review_at = <<29>>
    /\ DOMAIN reviewer_metrics = {"alice"}
    /\ Len(reviewer_metrics["alice"]) = 1

(***************************************************************************)
(* C12: when a run has printed its report, a reviewer has a block in the   *)
(* reviewer statistics exactly when a processed pull request has a review  *)
(* of that reviewer with a submitted_at; the count is the number of these  *)
(* reviews over all processed pull requests, every entry is submitted_at   *)
(* minus created_at of its pull request, and fastest and slowest are the   *)
(* least and the greatest entry.                                           *)
(***************************************************************************)
C12_ReviewerStatsOverProcessedReviews ==
    pc = "done" =>
        LET stats == output[1].reviewer_stats
        IN  \A l \in Logins :
                LET pos == TimedPositions(l)
                    hours == {HoursAt(p) : p \in pos}
                    blocks == {b \in 1..Len(stats) : stats[b].reviewer = l}
                    entries == EntriesOf(reviewer_metrics, l)
                IN  /\ Cardinality(blocks) = IF pos = {} THEN 0 ELSE 1
                    /\ \A b \in blocks :
                           /\ stats[b].count = Cardinality(pos)
                           /\ stats[b].fastest = MinOf(hours)
                           /\ stats[b].slowest = MaxOf(hours)
                    /\ \A v \in hours \cup Range(entries) :
                           CountIn(entries, v) = Cardinality({p \in pos : HoursAt(p) = v})

C12_Witness ==
    /\ pc = "done"
    /\ consumed = << <<RemoteReview("alice", <<1, 5>>), RemoteReview("bob", <<1, 10>>)>>,
                     <<RemoteReview("alice", <<1, 10>>), RemoteReview("bob", None)>> >>
    /\ all_prs[1].number = 1
    /\ all_prs[2].number = 2
    /\ Len(output[1].reviewer_stats) = 2
    /\ output[1].reviewer_stats[1].reviewer = "alice"
    /\ output[1].reviewer_stats[1].count = 2
    /\ output[1].reviewer_stats[1].fastest = 0 - 14
    /\ output[1].reviewer_stats[1].slowest = 5
    /\ output[1].reviewer_stats[2].count = 1

(***************************************************************************)
(* C13: the report of a finished run has one pull-request entry for each   *)
(* pull request the date filter retained, without reviews or with pending  *)
(* ones only as well, in the order of the remote list; and its reviewer    *)
(* blocks are in ascending order of the login, each login once.            *)
(***************************************************************************)
C13_ReportOrder ==
    pc = "done" =>
        LET printed == output[1].pr_metrics
            stats == output[1].reviewer_stats
            retained ==
                SelectSeq(fetched_prs,
                    LAMBDA p :
                        /\ from_dt # None => iso_to_dt(p.created_at) >= from_dt[1]
                        /\ to_dt # None => iso_to_dt(p.created_at) <= to_dt[1])
        IN  /\ Len(printed) = Len(retained)
            /\ \A k \in 1..Len(retained) :
                   /\ printed[k].pr_number = retained[k].number
                   /\ printed[k].title = retained[k].title
            /\ \A a \in 1..Len(stats), b \in 1..Len(stats) :
                   a < b => Rank(stats[a].reviewer) < Rank(stats[b].reviewer)

C13_Witness ==
    /\ pc = "done"
    /\ Len(fetched_prs) = 2
    /\ fetched_prs[1].number = 2
    /\ fetched_prs[2].number = 1
    /\ consumed = << <<>>,
                     <<RemoteReview("bob", <<1, 10>>), RemoteReview("alice", <<1, 10>>)>> >>
    /\ Len(output[1].pr_metrics) = 2
    /\ output[1].pr_metrics[1].pr_number = 2
    /\ output[1].pr_metrics[1].first_review_at = None
    /\ output[1].pr_metrics[2].pr_number = 1
    /\ output[1].reviewer_stats[1].reviewer = "alice"
    /\ output[1].reviewer_stats[2].reviewer = "bob"

(***************************************************************************)
(* C14: every pull request of the remote list is upserted before the date  *)
(* filter is applied and before a review is fetched: the filter runs, and  *)
(* a review request is made, only with all of them in pull_requests as the *)
(* remote returned them in this run, those outside the window included;    *)
(* and so they are for the rest of the run.                                *)
(***************************************************************************)
C14_UpsertBeforeFilterAndFetch ==
    /\ [][ /\ (pc = "cache_prs" /\ pc' = "loop") => AllFetchedCached
           /\ (Len(requests') > Len(requests) /\ Len(requests') > 1) => AllFetchedCached
         ]_vars
    /\ []((\/ pc \in {"loop", "fetch_reviews", "save_delete", "save_insert",
                       "aggregate", "done"}
           \/ pc = "aborted" /\ Len(requests) > 1)
              => AllFetchedCached)

C14_Witness ==
    /\ pc = "done"
    /\ from_date = <<2>>
    /\ Len(fetched_prs) = 2
    /\ fetched_prs[1] = RemotePR(2, "closed")
    /\ fetched_prs[2] = RemotePR(1, "open")
    /\ all_prs = <<fetched_prs[1]>>
    /\ requests = << <<"prs">>, <<"reviews", 2>> >>
    /\ get_pr_from_db(1) = <<RemotePR(1, "open")>>

(***************************************************************************)
(* C15: no step of the program, in a run that finishes or in one that is   *)
(* aborted, takes a number out of pull_requests: not for a pull request    *)
(* the remote list no longer holds, and not for one outside the window.    *)
(***************************************************************************)
C15_PullRequestsNeverDeleted ==
    [][ {row.pr_number : row \in pull_requests}
            \subseteq {row.pr_number : row \in pull_requests'} ]_vars

C15_Witness ==
    /\ pc = "done"
    /\ fetched_prs = <<RemotePR(2, "open")>>
    /\ from_date = None
    /\ get_pr_from_db(1) = <<RemotePR(1, "closed")>>
    /\ get_pr_from_db(2) = <<RemotePR(2, "open")>>

(***************************************************************************)
(* C16: a run whose from_date is after its to_date makes no remote call:   *)
(* neither the pull-request list nor a review list is requested in it.     *)
(***************************************************************************)
C16_InvalidRangeMakesNoRemoteCall ==
    (/\ from_date # None
     /\ to_date # None
     /\ iso_to_dt(from_date) > iso_to_dt(to_date))
        => requests = <<>>

(***************************************************************************)
(* C17: save_pr_to_db(pr) changes the row of pr.number in pull_requests    *)
(* and nothing else: every other row and the cached reviews of every       *)
(* number, pr.number included, stay as they are. save_reviews_to_db(n, R)  *)
(* changes the cached reviews of n and nothing else: pull_requests and the *)
(* cached reviews of every other number stay as they are.                  *)
(***************************************************************************)
C17_StoreOperationsFrame ==
    [][ /\ (pc = "cache_prs" /\ i' = i + 1)
            => /\ \A n \in PRNumbers :
                      ReviewsIn(reviews_tbl', n) = ReviewsIn(reviews_tbl, n)
               /\ \A n \in PRNumbers \ {pr.number} :
                      {row \in pull_requests' : row.pr_number = n}
                          = {row \in pull_requests : row.pr_number = n}
        /\ (pc \in {"save_delete", "save_insert"})
            => /\ pull_requests' = pull_requests
               /\ \A n \in PRNumbers \ {pr.number} :
                      ReviewsIn(reviews_tbl', n) = ReviewsIn(reviews_tbl, n)
      ]_vars

C17_Witness ==
    /\ pc = "aggregate"
    /\ Len(fetched_prs) = 2
    /\ fetched_prs[1].number = 2
    /\ fetched_prs[2].number = 1
    /\ i = 2
    /\ written = << <<1, <<RemoteReview("bob", None)>> >> >>
    /\ get_reviews_from_db(1) = <<RemoteReview("bob", None)>>
    /\ Len(get_reviews_from_db(2)) = 2
    /\ get_pr_from_db(2) = <<fetched_prs[1]>>

(***************************************************************************)
(* C18: a run whose fetch of the pull-request list fails, on whatever      *)
(* page, leaves the cache as it found it: from the prompt through the      *)
(* pages to the failure and back to the prompt no step writes or deletes a *)
(* row of pull_requests or of reviews; pull_requests is written only once  *)
(* the whole list has been retrieved.                                      *)
(***************************************************************************)
C18_PRListFailureLeavesCache ==
    [][ /\ (\/ pc \in {"idle", "fetch_prs"}
            \/ pc = "aborted" /\ error = "HTTPError" /\ requests = << <<"prs">> >>)
            => /\ pull_requests' = pull_requests
               /\ reviews_tbl' = reviews_tbl
               /\ txn = None
               /\ txn' = None
        /\ pull_requests' # pull_requests
            => /\ pc = "cache_prs"
               /\ all_prs = results
               /\ fetched_prs = results
      ]_vars

C18_Witness ==
    /\ pc = "aborted"
    /\ error = "HTTPError"
    /\ requests = << <<"prs">> >>
    /\ results = <<RemotePR(1, "open")>>
    /\ get_pr_from_db(1) = <<RemotePR(1, "closed")>>
    /\ get_pr_from_db(2) = None
    /\ Len(get_reviews_from_db(1)) = 2

(***************************************************************************)
(* C19: for a pull request the date filter excludes, open or closed, the   *)
(* run requests no reviews and writes no reviews: no step before the       *)
(* filter, and no step of a run that excludes the number n, changes the    *)
(* cached reviews of n or asks the remote for them, so the run ends with   *)
(* the cached reviews it began with.                                       *)
(***************************************************************************)
C19_ExcludedPRUntouched ==
    [][ \A n \in PRNumbers :
            (pc \in {"idle", "fetch_prs", "cache_prs"} \/ Excluded(n))
                => /\ ReviewsIn(reviews_tbl', n) = ReviewsIn(reviews_tbl, n)
                   /\ <<"reviews", n>> \notin Range(requests')
                   /\ \A k \in 1..Len(written') : written'[k][1] # n
      ]_vars

C19_Witness ==
    /\ pc = "done"
    /\ from_date = None
    /\ to_date = <<1>>
    /\ fetched_prs = <<RemotePR(2, "closed"), RemotePR(1, "open")>>
    /\ all_prs = <<RemotePR(1, "open")>>
    /\ requests = << <<"prs">>, <<"reviews", 1>> >>
    /\ get_reviews_from_db(2) = <<>>
    /\ get_pr_from_db(2) = <<RemotePR(2, "closed")>>

(***************************************************************************)
(* C20: when a run over a remote list of different pull-request numbers    *)
(* has finished, the reviews the aggregation read for each processed pull  *)
(* request are the reviews get_reviews_from_db returns for its number,     *)
(* each as often, whether they came from the cache (closed and cached) or  *)
(* from the remote (closed and not cached, or open).                       *)
(***************************************************************************)
C20_ConsumedEqualsCached ==
    (pc = "done" /\ DistinctNumbers(fetched_prs)) =>
        /\ Len(consumed) = Len(all_prs)
        /\ \A k \in 1..Len(all_prs) :
               /\ SameMultiset(consumed[k], get_reviews_from_db(all_prs[k].number))
               /\ Len(consumed[k]) = Len(get_reviews_from_db(all_prs[k].number))

C20_Witness ==
    /\ pc = "done"
    /\ fetched_prs = <<RemotePR(1, "closed"), RemotePR(2, "open")>>
    /\ all_prs = fetched_prs
    /\ requests = << <<"prs">>, <<"reviews", 2>> >>
    /\ Len(consumed[1]) = 2
    /\ consumed[1] = get_reviews_from_db(1)
    /\ consumed[2] = <<RemoteReview("bob", None)>>
    /\ get_reviews_from_db(2) = <<RemoteReview("bob", None)>>

====
